---------------------------- MODULE Spec2Model ----------------------------
(***************************************************************************)
(* Multi-provider dispatch engine of the chatbot:                          *)
(*   chatbot/multi_model_manager.py  MultiModelLLMManager                  *)
(*   chatbot/llm_manager.py          FreeLLMManager                        *)
(*                                                                         *)
(* A process holds several FreeLLMManager instances (ChatbotAgent,         *)
(* QueryGenerator, ResponseGenerator).  Each wraps either its own          *)
(* MultiModelLLMManager (registry, enabled flags, counters) or, in the     *)
(* fallback mode, a single Groq client.  Caller threads run generate();    *)
(* a call is modelled step by step, a step ending where the code blocks    *)
(* in an adapter or touches the shared counters.                           *)
(* Construction (CtorSpec), get_model_stats (StatsSpec) and the model-id   *)
(* loop of the Hugging Face adapter (HfSpec) have specifications of their  *)
(* own; LiveSpec adds the fairness under which a call terminates.          *)
(***************************************************************************)
EXTENDS Integers, Sequences, FiniteSets, TLC

\* ------------------------------------------------------------------ bounds
NumManagers == 2      \* FreeLLMManager instances in the process
NumThreads == 2       \* caller threads
MaxCalls == 3         \* generate() calls begun by the single caller of Spec
MaxProcCalls == 2     \* generate() calls begun under ProcSpec
MaxConcCalls == 2     \* generate() calls begun under ConcSpec
MaxLiveCalls == 2     \* generate() calls begun under LiveSpec
MaxStatsCalls == 3    \* generate() calls begun under StatsSpec
MaxHfCalls == 2       \* generate() calls begun under HfSpec
MaxRaceCalls == 3     \* generate() calls begun under RaceSpec

Managers == 1..NumManagers
Threads == 1..NumThreads

\* --------------------------------------------------------------- registry
\* Priority order of _initialize_models: groq, huggingface, gemini.
Providers == <<"groq", "huggingface", "gemini">>

ProviderSet == {Providers[i] : i \in 1..Len(Providers)}

\* Mutant of InitializeModels: huggingface is registered first.
InitializeModelsHfFirst(usable) ==
    SelectSeq(<<"huggingface", "groq", "gemini">>, LAMBDA p : p \in usable)

\* self.models after _initialize_models: the providers whose credential is
\* present and whose adapter constructed, appended in priority order.
InitializeModels(usable) == SelectSeq(Providers, LAMBDA p : p \in usable)

\* --------------------------------------------------------- errors and text
\* str(e).lower() is modelled by the set of classifier keywords it contains.
RawErrors == {"429 rate limit", "410 gone", "401 unauthorized", "404 after timeout"}

Keywords(text) ==
    CASE text = "429 rate limit" -> {"429", "rate limit"}
      [] text = "410 gone" -> {"410", "gone"}
      [] text = "401 unauthorized" -> {}
      [] text = "404 after timeout" -> {"404", "timeout"}
      [] text = "all hugging face models failed" -> {"all hugging face models failed"}
      [] text = "503 service unavailable" -> {"503", "service unavailable"}
      [] text = "read timeout" -> {"timeout"}
      [] OTHER -> {}

NoError == [by |-> "none", text |-> "none"]

\* What TextCorrector.fix_llm_response raises on a truthy non-string.
NormalizerError == [by |-> "text_corrector", text |-> "object has no attribute 'replace'"]

NoText == "None"
NonStr == "<non-str>"

\* Replies an adapter can return as raw_response.
RawTexts == {"", "hllo", NonStr}

\* Python truthiness of raw_response.
Truthy(text) == text # "" /\ text # NoText

\* fix_llm_response(raw) raises when raw is not a string (corrected.replace).
NormalizerRaises(text) == text = NonStr

\* fix_llm_response on a string: the typo "hllo" becomes "Hello".
FixLlmResponse(text) == IF text = "hllo" THEN "Hello" ELSE text

\* is_retryable of generate's except branch.
IsRetryable(e) ==
    Keywords(e.text) \cap {"rate limit", "429", "503", "timeout", "connection",
                           "service unavailable", "too many requests"} # {}

\* is_model_unavailable of generate's except branch.
IsModelUnavailable(e) ==
    Keywords(e.text) \cap {"410", "gone", "404", "all hugging face models failed"} # {}

\* ------------------------------------------------------------------ state
VARIABLES
    env,              \* the process environment: importable modules, credentials
    ctor,             \* manager -> outcome of FreeLLMManager.__init__
    stats,            \* thread -> the dict its last get_model_stats() returned
    is_multi_model,   \* manager -> BOOLEAN (FreeLLMManager.is_multi_model)
    models,           \* manager -> registry, a sequence of provider names
    enabled,          \* manager -> provider -> model_info['enabled']
    model_stats,      \* manager -> provider -> [success, failures]
    call,             \* thread -> the locals of its current or last generate()
    invoked,          \* manager -> provider -> adapter invocations by the dispatcher
    unavailable_seen, \* {<<manager, provider>>}: adapter raised a 410-equivalent error
    increments,       \* manager -> provider -> the += 1 statements executed
    ncalls            \* generate() calls begun so far

\* _generate_with_huggingface has not run in the call.
NoHfRun == [kind |-> "none", text |-> "none", log |-> <<>>]

\* No get_model_stats() call has returned yet.
NoStats == {}

vars == <<env, ctor, stats, is_multi_model, models, enabled, model_stats, call, invoked,
          unavailable_seen, increments, ncalls>>

ZeroStats == [p \in ProviderSet |-> [success |-> 0, failures |-> 0]]

IdleCall ==
    [pc |-> "idle", mgr |-> 1, fix_typos |-> FALSE, idx |-> 0,
     last_error |-> NoError, attempted_models |-> <<>>, total_models |-> 0,
     provider |-> "none", raw_response |-> NoText, e |-> NoError, tmp |-> 0,
     result |-> "none", returned |-> NoText,
     called |-> {}, answered |-> {}, unnormalized |-> {},
     enabled0 |-> {}, stats0 |-> ZeroStats,
     seen0 |-> {}, hf |-> NoHfRun]

\* ------------------------------------------------------------ construction
\* Mutant of ConfigError: construction is refused unless groq registered.
ConfigErrorWithoutGroq(registry) == \A i \in 1..Len(registry) : registry[i] # "groq"

\* if not self.models: raise ValueError("No AI models available!")
ConfigError(registry) == registry = <<>>

\* MultiModelLLMManager.__init__ in environment environ, where ok holds the
\* providers whose client construction does not raise: a provider is
\* registered if its library imported, its credential is set and its client
\* constructed.
MultiModelInit(environ, ok) ==
    LET registry == InitializeModels({p \in environ.available \cap environ.keys : p \in ok}) IN
    [registry |-> registry, raised |-> ConfigError(registry)]

\* A manager before its constructor ran.
Unbuilt == [state |-> "unbuilt", multi_called |-> FALSE, raised |-> FALSE, ok |-> {}]

\* FreeLLMManager.__init__.  With the multi-model module imported it wraps a
\* MultiModelLLMManager; when that raises it calls _init_single_groq, which
\* raises for a missing GROQ_API_KEY and otherwise fails on the name Groq,
\* which llm_manager.py imports only when the multi-model module is missing.
\* Without the multi-model module _init_single_groq builds the Groq client.
FreeLLMManagerInit(environ, ok) ==
    IF environ.multi_available
    THEN [state |-> IF MultiModelInit(environ, ok).raised THEN "failed" ELSE "multi",
          multi_called |-> TRUE,
          raised |-> MultiModelInit(environ, ok).raised,
          ok |-> ok]
    ELSE [state |-> IF "groq" \in environ.keys /\ "groq" \in ok THEN "single" ELSE "failed",
          multi_called |-> FALSE,
          raised |-> FALSE,
          ok |-> ok]

\* The process after start-up: every FreeLLMManager read the same environment,
\* so every manager holds the same registry, all flags true, all counters 0.
Boot(usables, modes) ==
    \E usable \in usables, multi \in modes :
        /\ multi \/ "groq" \in usable
        /\ env = [multi_available |-> multi, available |-> ProviderSet, keys |-> usable]
        /\ ctor = [m \in Managers |-> FreeLLMManagerInit(env, ProviderSet)]
        /\ stats = [t \in Threads |-> NoStats]
        /\ is_multi_model = [m \in Managers |-> multi]
        /\ models = [m \in Managers |-> IF multi THEN InitializeModels(usable) ELSE <<>>]
        /\ enabled = [m \in Managers |-> [p \in ProviderSet |-> TRUE]]
        /\ model_stats = [m \in Managers |-> ZeroStats]
        /\ call = [t \in Threads |-> IdleCall]
        /\ invoked = [m \in Managers |-> [p \in ProviderSet |-> 0]]
        /\ unavailable_seen = {}
        /\ increments = [m \in Managers |-> ZeroStats]
        /\ ncalls = 0

Init == Boot((SUBSET ProviderSet) \ {{}}, BOOLEAN)

Registered(m) == {models[m][i] : i \in 1..Len(models[m])}

\* Mutant of IsEnabled: a traversal uses the flags as they were when its call
\* started.
EnabledAtStart(m, p) ==
    \E t \in Threads : call[t].pc = "loop" /\ call[t].mgr = m /\ p \in call[t].enabled0

\* Mutant of IsEnabled: the enabled flag is not consulted.
AlwaysEnabled(m, p) == TRUE

\* model_info.get('enabled', True)
IsEnabled(m, p) == enabled[m][p]

\* [x for x in self.models if x.get('enabled', True)]
EnabledModels(m) == SelectSeq(models[m], LAMBDA p : IsEnabled(m, p))

\* ------------------------------------------- MultiModelLLMManager.generate
\* Entry of generate: the locals are initialised and total_models counts the
\* providers enabled now.  enabled0, stats0 and seen0 record the manager's
\* state at the start of the call for the properties below.
Begin(t, m, fix, limit) ==
    /\ call[t].pc = "idle"
    /\ ncalls < limit
    /\ is_multi_model[m]
    /\ ncalls' = ncalls + 1
    /\ call' = [call EXCEPT ![t] =
           [IdleCall EXCEPT !.pc = "loop", !.mgr = m, !.fix_typos = fix, !.idx = 1,
                            !.total_models = Len(EnabledModels(m)),
                            !.result = "Pending",
                            !.enabled0 = {p \in Registered(m) : enabled[m][p]},
                            !.stats0 = model_stats[m],
                            !.seen0 = unavailable_seen]]
    /\ UNCHANGED <<env, ctor, stats, is_multi_model, models, enabled, model_stats, invoked, unavailable_seen, increments>>

\* Mutant of Skip: the name is appended before the enabled check.
SkipAppends(t) ==
    LET c == call[t]  m == c.mgr IN
    /\ c.pc = "loop"
    /\ c.idx <= Len(models[m])
    /\ ~IsEnabled(m, models[m][c.idx])
    /\ call' = [call EXCEPT ![t].idx = c.idx + 1,
                            ![t].attempted_models = Append(c.attempted_models, models[m][c.idx])]
    /\ UNCHANGED <<env, ctor, stats, is_multi_model, models, enabled, model_stats, invoked, unavailable_seen, increments, ncalls>>

\* for model_info in self.models: a disabled provider is skipped.
Skip(t) ==
    LET c == call[t]  m == c.mgr IN
    /\ c.pc = "loop"
    /\ c.idx <= Len(models[m])
    /\ ~IsEnabled(m, models[m][c.idx])
    /\ call' = [call EXCEPT ![t].idx = c.idx + 1]
    /\ UNCHANGED <<env, ctor, stats, is_multi_model, models, enabled, model_stats, invoked, unavailable_seen, increments, ncalls>>

\* Mutant of Invoke: the adapter is started and the loop goes on to the next
\* registry position without waiting for it.
InvokeNoWait(t) ==
    LET c == call[t]  m == c.mgr IN
    /\ c.pc = "loop"
    /\ c.idx <= Len(models[m])
    /\ IsEnabled(m, models[m][c.idx])
    /\ LET p == models[m][c.idx] IN
        /\ call' = [call EXCEPT ![t].idx = c.idx + 1, ![t].provider = p,
                                ![t].attempted_models = Append(c.attempted_models, p),
                                ![t].called = c.called \cup {p}]
        /\ invoked' = [invoked EXCEPT ![m][p] = @ + 1]
    /\ UNCHANGED <<env, ctor, stats, is_multi_model, models, enabled, model_stats, unavailable_seen, increments, ncalls>>

\* An enabled provider: its name is appended to attempted_models and its
\* adapter is called; the call blocks in the adapter.  (The registry holds
\* only groq, huggingface and gemini, so the final "else: continue" of the
\* provider dispatch is never taken.)
Invoke(t) ==
    LET c == call[t]  m == c.mgr IN
    /\ c.pc = "loop"
    /\ c.idx <= Len(models[m])
    /\ IsEnabled(m, models[m][c.idx])
    /\ LET p == models[m][c.idx] IN
        /\ call' = [call EXCEPT ![t].pc = "adapter", ![t].provider = p,
                                ![t].attempted_models = Append(c.attempted_models, p),
                                ![t].called = c.called \cup {p}]
        /\ invoked' = [invoked EXCEPT ![m][p] = @ + 1]
    /\ UNCHANGED <<env, ctor, stats, is_multi_model, models, enabled, model_stats, unavailable_seen, increments, ncalls>>

\* The adapter returns raw_response, and
\* self.model_stats[provider]['success'] += 1 reads the counter ...
AdapterReturns(t, text) ==
    LET c == call[t] IN
    /\ c.pc = "adapter"
    /\ call' = [call EXCEPT ![t].pc = "success_write", ![t].raw_response = text,
                            ![t].tmp = model_stats[c.mgr][c.provider].success,
                            ![t].answered = c.answered \cup {c.provider}]
    /\ UNCHANGED <<env, ctor, stats, is_multi_model, models, enabled, model_stats, invoked, unavailable_seen, increments, ncalls>>

\* The adapter raises; control enters the except branch, where
\* self.model_stats[provider]['failures'] += 1 reads the counter ...
AdapterRaises(t, text) ==
    LET c == call[t]
        err == [by |-> c.provider, text |-> text] IN
    /\ c.pc = "adapter"
    /\ call' = [call EXCEPT ![t].pc = "failure_write", ![t].e = err,
                            ![t].tmp = model_stats[c.mgr][c.provider].failures]
    /\ unavailable_seen' = IF IsModelUnavailable(err)
                              THEN unavailable_seen \cup {<<c.mgr, c.provider>>}
                              ELSE unavailable_seen
    /\ UNCHANGED <<env, ctor, stats, is_multi_model, models, enabled, model_stats, invoked, increments, ncalls>>

\* ------------------------------------------- _generate_with_huggingface
\* hf_models: the primary model id and its three fallback ids.
NumHfModels == 4

\* What the Inference API does with one POST: status 410 or 404 ("gone"),
\* another error status ("http_error"), no reply before the timeout, a 200
\* whose body is an empty list ("bad_format"), a 200 with a completion
\* ("text"), a 200 whose body is {"error": ...} saying the model is loading
\* ("loading") or saying something else ("error_body").
HfReplies == {"gone", "http_error", "timeout", "bad_format", "text", "error_body", "loading"}

\* The replies one model id gives within one adapter run: its reply to the
\* POST and, after a loading reply, its reply to the repeated POST.
HfScripts ==
    {<<r>> : r \in HfReplies \ {"loading"}} \cup {<<"loading", r>> : r \in HfReplies}

\* The replies with which the try block of a model id ends in an exception or
\* in the explicit 410/404 continue.
HfFailures == {"gone", "http_error", "timeout", "bad_format"}

\* str(e) of the exception a failed reply ends in.
HfErrorText(reply) ==
    CASE reply = "http_error" -> "503 service unavailable"
      [] reply = "timeout" -> "read timeout"
      [] OTHER -> "unexpected response format"

\* Mutant of MovesOn: only a 410/404 leads to the next model id.
MovesOnGone(reply, last) == reply = "gone"

\* Whether the loop goes on to the next model id after a failed reply: the
\* 410/404 branches continue; the except branches raise for the last model id
\* and continue otherwise.
MovesOn(reply, last) == reply = "gone" \/ ~last

\* The loop over models_to_try from position k, log being the POSTs made so
\* far with their replies.  A loading reply is followed by one repeated POST
\* whose reply is handled without a second look at its error field: a list
\* with an entry returns its generated_text, any dict, an error object
\* included, returns result.get('generated_text', '').
RECURSIVE HuggingFaceTry(_, _, _)
HuggingFaceTry(scripts, k, log) ==
    IF k > NumHfModels
    THEN [kind |-> "raise", text |-> "all hugging face models failed", log |-> log]
    ELSE LET first == scripts[k][1]
             final == IF first = "loading" THEN scripts[k][2] ELSE first
             posts == IF first = "loading"
                      THEN log \o <<<<k, first>>, <<k, final>>>>
                      ELSE Append(log, <<k, first>>) IN
         IF final \in HfFailures
         THEN IF MovesOn(final, k = NumHfModels)
              THEN HuggingFaceTry(scripts, k + 1, posts)
              ELSE [kind |-> "raise", text |-> HfErrorText(final), log |-> posts]
         ELSE [kind |-> "return", text |-> IF final = "text" THEN "hllo" ELSE "", log |-> posts]

GenerateWithHuggingface(scripts) == HuggingFaceTry(scripts, 1, <<>>)

\* The Hugging Face adapter runs against model ids that reply as scripts say,
\* and returns or raises into generate as AdapterReturns and AdapterRaises do.
HuggingFaceAdapter(t, scripts) ==
    LET c == call[t]
        r == GenerateWithHuggingface(scripts)
        err == [by |-> c.provider, text |-> r.text] IN
    /\ c.pc = "adapter"
    /\ c.provider = "huggingface"
    /\ IF r.kind = "return"
       THEN /\ call' = [call EXCEPT ![t].pc = "success_write", ![t].raw_response = r.text,
                                    ![t].tmp = model_stats[c.mgr][c.provider].success,
                                    ![t].answered = c.answered \cup {c.provider},
                                    ![t].hf = r]
            /\ UNCHANGED unavailable_seen
       ELSE /\ call' = [call EXCEPT ![t].pc = "failure_write", ![t].e = err,
                                    ![t].tmp = model_stats[c.mgr][c.provider].failures,
                                    ![t].hf = r]
            /\ unavailable_seen' = IF IsModelUnavailable(err)
                                      THEN unavailable_seen \cup {<<c.mgr, c.provider>>}
                                      ELSE unavailable_seen
    /\ UNCHANGED <<env, ctor, stats, is_multi_model, models, enabled, model_stats, invoked, increments, ncalls>>

\* The Hugging Face adapter of thread t's call runs, every model id replying
\* with some script.
HuggingFaceRuns(t) ==
    /\ call[t].pc = "adapter"
    /\ \E scripts \in [1..NumHfModels -> HfScripts] : HuggingFaceAdapter(t, scripts)

\* What follows the success counter inside the try block: with fix_typos and a
\* truthy raw_response the normalizer runs; its exception is caught by the same
\* except branch as an adapter's, otherwise the call returns.
PostProcess(c) ==
    IF c.fix_typos /\ Truthy(c.raw_response)
    THEN IF NormalizerRaises(c.raw_response)
         THEN [c EXCEPT !.pc = "failure_read", !.e = NormalizerError,
                        !.unnormalized = c.unnormalized \cup {c.provider}]
         ELSE [c EXCEPT !.pc = "idle", !.result = "Succeeded",
                        !.returned = FixLlmResponse(c.raw_response)]
    ELSE [c EXCEPT !.pc = "idle", !.result = "Succeeded", !.returned = c.raw_response]

\* ... and stores it incremented; then the post-processing.
TrackSuccessWrite(t) ==
    LET c == call[t] IN
    /\ c.pc = "success_write"
    /\ model_stats' = [model_stats EXCEPT ![c.mgr][c.provider].success = c.tmp + 1]
    /\ increments' = [increments EXCEPT ![c.mgr][c.provider].success = @ + 1]
    /\ call' = [call EXCEPT ![t] = PostProcess(c)]
    /\ UNCHANGED <<env, ctor, stats, is_multi_model, models, enabled, invoked, unavailable_seen, ncalls>>

\* The except branch entered from the normalizer:
\* self.model_stats[provider]['failures'] += 1 reads the counter ...
TrackFailureRead(t) ==
    LET c == call[t] IN
    /\ c.pc = "failure_read"
    /\ call' = [call EXCEPT ![t].pc = "failure_write",
                            ![t].tmp = model_stats[c.mgr][c.provider].failures]
    /\ UNCHANGED <<env, ctor, stats, is_multi_model, models, enabled, model_stats, invoked, unavailable_seen, increments, ncalls>>

\* Mutant of Classify: only huggingface is ever disabled.
ClassifyHuggingFace(m, p, e) ==
    IF IsModelUnavailable(e) /\ p = "huggingface"
    THEN [enabled EXCEPT ![m][p] = FALSE]
    ELSE enabled

\* Mutant of Classify: the retryable test comes first.
ClassifyRetryableFirst(m, p, e) ==
    IF IsRetryable(e) THEN enabled
    ELSE IF IsModelUnavailable(e) THEN [enabled EXCEPT ![m][p] = FALSE] ELSE enabled

\* Mutant of Classify: the flag is shared by every manager of the process.
ClassifyProcessWide(m, p, e) ==
    IF IsModelUnavailable(e)
    THEN [k \in Managers |-> [enabled[k] EXCEPT ![p] = FALSE]]
    ELSE enabled

\* Mutant of Classify: every failure disables the provider.
ClassifyDisables(m, p, e) == [enabled EXCEPT ![m][p] = FALSE]

\* Mutant of Classify: an unavailable provider stays enabled.
ClassifyNever(m, p, e) == enabled

\* The enabled flags after the classification of error e of provider p:
\* model_info['enabled'] = False when is_model_unavailable.
Classify(m, p, e) ==
    IF IsModelUnavailable(e) THEN [enabled EXCEPT ![m][p] = FALSE] ELSE enabled

\* Mutant of Continue: break instead of continue.
ContinueAbort(c) ==
    [c EXCEPT !.pc = "loop", !.last_error = c.e, !.idx = Len(models[c.mgr]) + 1]

\* Mutant of Continue: the failed provider is tried again.
ContinueRetry(c) == [c EXCEPT !.pc = "loop", !.last_error = c.e]

\* Mutant of Continue: the provider's error is re-raised to the caller.
ContinueRaise(c) ==
    [c EXCEPT !.pc = "idle", !.last_error = c.e, !.result = "ProviderError"]

\* The locals after the except branch: last_error = e; continue.
Continue(c) ==
    [c EXCEPT !.pc = "loop", !.last_error = c.e, !.idx = c.idx + 1]

\* Mutant of TrackFailureWrite: the failure is not counted.
TrackFailureWriteUncounted(t) ==
    LET c == call[t] IN
    /\ c.pc = "failure_write"
    /\ enabled' = Classify(c.mgr, c.provider, c.e)
    /\ call' = [call EXCEPT ![t] = Continue(c)]
    /\ UNCHANGED <<env, ctor, stats, is_multi_model, models, model_stats, invoked, unavailable_seen, increments, ncalls>>

\* Mutant of TrackFailureWrite: an unavailable provider is removed from
\* self.models instead of being flagged.
TrackFailureWriteRemoves(t) ==
    LET c == call[t] IN
    /\ c.pc = "failure_write"
    /\ model_stats' = [model_stats EXCEPT ![c.mgr][c.provider].failures = c.tmp + 1]
    /\ increments' = [increments EXCEPT ![c.mgr][c.provider].failures = @ + 1]
    /\ models' = IF IsModelUnavailable(c.e)
                  THEN [models EXCEPT ![c.mgr] = SelectSeq(@, LAMBDA p : p # c.provider)]
                  ELSE models
    /\ call' = [call EXCEPT ![t] = Continue(c)]
    /\ UNCHANGED <<env, ctor, stats, is_multi_model, enabled, invoked, unavailable_seen, ncalls>>

\* ... and stores it incremented; the error is classified, the provider is
\* disabled when unavailable, and the loop moves to the next registry entry.
TrackFailureWrite(t) ==
    LET c == call[t] IN
    /\ c.pc = "failure_write"
    /\ model_stats' = [model_stats EXCEPT ![c.mgr][c.provider].failures = c.tmp + 1]
    /\ increments' = [increments EXCEPT ![c.mgr][c.provider].failures = @ + 1]
    /\ enabled' = Classify(c.mgr, c.provider, c.e)
    /\ call' = [call EXCEPT ![t] = Continue(c)]
    /\ UNCHANGED <<env, ctor, stats, is_multi_model, models, invoked, unavailable_seen, ncalls>>

\* The loop is over: raise Exception(error_msg) carrying attempted_models and
\* last_error.
Exhaust(t) ==
    LET c == call[t] IN
    /\ c.pc = "loop"
    /\ c.idx > Len(models[c.mgr])
    /\ call' = [call EXCEPT ![t].pc = "idle", ![t].result = "Exhausted"]
    /\ UNCHANGED <<env, ctor, stats, is_multi_model, models, enabled, model_stats, invoked, unavailable_seen, increments, ncalls>>

\* ---------------------------------- FreeLLMManager.generate, single Groq
\* is_multi_model is false: the Groq client is called directly.
SingleBegin(t, m, fix, limit) ==
    /\ call[t].pc = "idle"
    /\ ncalls < limit
    /\ ~is_multi_model[m]
    /\ ncalls' = ncalls + 1
    /\ call' = [call EXCEPT ![t] =
           [IdleCall EXCEPT !.pc = "single_adapter", !.mgr = m, !.fix_typos = fix,
                            !.provider = "groq", !.called = {"groq"},
                            !.result = "Pending", !.seen0 = unavailable_seen]]
    /\ UNCHANGED <<env, ctor, stats, is_multi_model, models, enabled, model_stats, invoked, unavailable_seen, increments>>

\* The result of the try block once Groq answered: a normalizer exception is
\* caught and re-raised as "LLM generation failed".
SinglePostProcess(c) ==
    IF c.fix_typos /\ Truthy(c.raw_response)
    THEN IF NormalizerRaises(c.raw_response)
         THEN [c EXCEPT !.pc = "idle", !.result = "GenerationFailed",
                        !.last_error = NormalizerError,
                        !.unnormalized = {c.provider}]
         ELSE [c EXCEPT !.pc = "idle", !.result = "Succeeded",
                        !.returned = FixLlmResponse(c.raw_response)]
    ELSE [c EXCEPT !.pc = "idle", !.result = "Succeeded", !.returned = c.raw_response]

SingleReturns(t, text) ==
    LET c == call[t] IN
    /\ c.pc = "single_adapter"
    /\ call' = [call EXCEPT ![t] =
           SinglePostProcess([c EXCEPT !.raw_response = text, !.answered = {"groq"}])]
    /\ UNCHANGED <<env, ctor, stats, is_multi_model, models, enabled, model_stats, invoked, unavailable_seen, increments, ncalls>>

\* except Exception as e: raise Exception(f"LLM generation failed: {e}")
SingleRaises(t, text) ==
    LET c == call[t]
        err == [by |-> "groq", text |-> text] IN
    /\ c.pc = "single_adapter"
    /\ call' = [call EXCEPT ![t].pc = "idle", ![t].result = "GenerationFailed",
                            ![t].last_error = err]
    /\ unavailable_seen' = IF IsModelUnavailable(err)
                              THEN unavailable_seen \cup {<<c.mgr, "groq">>}
                              ELSE unavailable_seen
    /\ UNCHANGED <<env, ctor, stats, is_multi_model, models, enabled, model_stats, invoked, increments, ncalls>>

\* ---------------------------------------------------------- specifications
\* One step of a MultiModelLLMManager.generate call of thread t; the adapters
\* reply with a text of texts or raise an error of errors.
MultiStep(t, texts, errors) ==
    \/ Skip(t)
    \/ Invoke(t)
    \/ \E text \in texts : AdapterReturns(t, text)
    \/ \E text \in errors : AdapterRaises(t, text)
    \/ TrackSuccessWrite(t)
    \/ TrackFailureWrite(t)
    \/ Exhaust(t)

\* One step of a single-Groq FreeLLMManager.generate call of thread t.
SingleStep(t, texts, errors) ==
    \/ \E text \in texts : SingleReturns(t, text)
    \/ \E text \in errors : SingleRaises(t, text)

\* Spec: one caller thread, one manager.
Next ==
    \/ \E fix \in BOOLEAN : Begin(1, 1, fix, MaxCalls)
    \/ \E fix \in BOOLEAN : SingleBegin(1, 1, fix, MaxCalls)
    \/ MultiStep(1, RawTexts, RawErrors)
    \/ TrackFailureRead(1)
    \/ SingleStep(1, RawTexts, RawErrors)

Spec == Init /\ [][Next]_vars

\* ProcSpec: one caller thread, every manager of the process; the environment
\* configures groq alone or groq and huggingface.
ProcInit == Boot({{"groq"}, {"groq", "huggingface"}}, BOOLEAN)

ProcNext ==
    \/ \E m \in Managers, fix \in BOOLEAN : Begin(1, m, fix, MaxProcCalls)
    \/ \E m \in Managers, fix \in BOOLEAN : SingleBegin(1, m, fix, MaxProcCalls)
    \/ MultiStep(1, RawTexts, RawErrors)
    \/ TrackFailureRead(1)
    \/ SingleStep(1, RawTexts, RawErrors)

ProcSpec == ProcInit /\ [][ProcNext]_vars

\* ConcSpec: concurrent caller threads on one multi-model manager whose
\* registry holds groq and huggingface; every text returned is a string, so
\* the normalizer does not raise.
ConcTexts == {"hllo"}

ConcErrors == {"429 rate limit", "410 gone"}

ConcInit == Boot({{"groq", "huggingface"}}, {TRUE})

\* Threads are interchangeable: thread t makes its first call once every
\* thread before it has made one.
MayBegin(t) == \A u \in Threads : u < t => call[u].result # "none"

ConcNext ==
    \/ \E t \in Threads : MayBegin(t) /\ Begin(t, 1, TRUE, MaxConcCalls)
    \/ \E t \in Threads : MultiStep(t, ConcTexts, ConcErrors)

ConcSpec == ConcInit /\ [][ConcNext]_vars

\* CtorSpec: the managers of the process are constructed one after another
\* in one environment.  A module that failed to import has no client to
\* construct; llm_manager.py itself imports groq when the multi-model module
\* is missing.  The Hugging Face branch of _initialize_models constructs no
\* client, so only the Groq and Gemini clients can raise.
Environments ==
    {e \in [multi_available : BOOLEAN, available : SUBSET ProviderSet, keys : SUBSET ProviderSet] :
        e.multi_available \/ "groq" \in e.available}

CtorInit ==
    /\ env \in Environments
    /\ ctor = [m \in Managers |-> Unbuilt]
    /\ stats = [t \in Threads |-> NoStats]
    /\ is_multi_model = [m \in Managers |-> FALSE]
    /\ models = [m \in Managers |-> <<>>]
    /\ enabled = [m \in Managers |-> [p \in ProviderSet |-> TRUE]]
    /\ model_stats = [m \in Managers |-> ZeroStats]
    /\ call = [t \in Threads |-> IdleCall]
    /\ invoked = [m \in Managers |-> [p \in ProviderSet |-> 0]]
    /\ unavailable_seen = {}
    /\ increments = [m \in Managers |-> ZeroStats]
    /\ ncalls = 0

\* FreeLLMManager() for manager m; ok holds the providers whose client
\* construction does not raise this time.
Construct(m, ok) ==
    /\ ctor[m].state = "unbuilt"
    /\ "huggingface" \in ok
    /\ LET r == FreeLLMManagerInit(env, ok) IN
        /\ ctor' = [ctor EXCEPT ![m] = r]
        /\ is_multi_model' = [is_multi_model EXCEPT ![m] = (r.state = "multi")]
        /\ models' = [models EXCEPT ![m] =
               IF r.state = "multi" THEN MultiModelInit(env, ok).registry ELSE <<>>]
        /\ enabled' = [enabled EXCEPT ![m] = [p \in ProviderSet |-> TRUE]]
        /\ model_stats' = [model_stats EXCEPT ![m] = ZeroStats]
    /\ UNCHANGED <<env, stats, call, invoked, unavailable_seen, increments, ncalls>>

CtorNext == \E m \in Managers, ok \in SUBSET ProviderSet : Construct(m, ok)

CtorSpec == CtorInit /\ [][CtorNext]_vars

\* ---------------------------------- MultiModelLLMManager.get_model_stats
\* Mutant of SuccessRate: the rate is not applicable while success is 0.
SuccessRateOfSuccesses(counts) ==
    IF counts.success > 0
    THEN [text |-> "percent",
          tenths |-> (2000 * counts.success + counts.success + counts.failures)
                         \div (2 * (counts.success + counts.failures))]
    ELSE [text |-> "N/A", tenths |-> 0]

\* f"{(success / total) * 100:.1f}%" as the number of tenths of a percent,
\* rounded to nearest, or 'N/A' when total is 0.
SuccessRate(counts) ==
    IF counts.success + counts.failures > 0
    THEN [text |-> "percent",
          tenths |-> (2000 * counts.success + counts.success + counts.failures)
                         \div (2 * (counts.success + counts.failures))]
    ELSE [text |-> "N/A", tenths |-> 0]

\* The dict get_model_stats returns, as the set of its entries: one entry for
\* each key of self.model_stats, which holds the registered providers.
GetModelStats(m) ==
    {[provider |-> p,
      success |-> IF model_stats[m][p].success + model_stats[m][p].failures > 0
                  THEN model_stats[m][p].success ELSE 0,
      failures |-> IF model_stats[m][p].success + model_stats[m][p].failures > 0
                   THEN model_stats[m][p].failures ELSE 0,
      success_rate |-> SuccessRate(model_stats[m][p])] : p \in Registered(m)}

\* Thread t calls get_model_stats() on manager m.
ReadStats(t, m) ==
    /\ call[t].pc = "idle"
    /\ is_multi_model[m]
    /\ stats' = [stats EXCEPT ![t] = GetModelStats(m)]
    /\ UNCHANGED <<env, ctor, is_multi_model, models, enabled, model_stats, call, invoked, unavailable_seen, increments, ncalls>>

\* StatsSpec: thread 1 calls generate() on a manager whose registry holds groq
\* alone or groq and huggingface, while thread 2 calls get_model_stats() on it
\* at any moment.
StatsInit == Boot({{"groq"}, {"groq", "huggingface"}}, {TRUE})

StatsNext ==
    \/ Begin(1, 1, TRUE, MaxStatsCalls)
    \/ MultiStep(1, ConcTexts, ConcErrors)
    \/ ReadStats(2, 1)

StatsSpec == StatsInit /\ [][StatsNext]_vars

\* HfSpec: one caller thread on one manager whose registry holds huggingface
\* alone; every model id answers each adapter run with any of its scripts.
HfInit == Boot({{"huggingface"}}, {TRUE})

HfNext ==
    \/ Begin(1, 1, TRUE, MaxHfCalls)
    \/ Skip(1)
    \/ Invoke(1)
    \/ HuggingFaceRuns(1)
    \/ TrackSuccessWrite(1)
    \/ TrackFailureWrite(1)
    \/ Exhaust(1)

HfSpec == HfInit /\ [][HfNext]_vars

\* RaceSpec: concurrent caller threads on one multi-model manager whose
\* registry holds groq alone, with enough calls for one thread to finish two
\* attempts between another thread's read and write of a counter.
RaceInit == Boot({{"groq"}}, {TRUE})

RaceNext ==
    \/ \E t \in Threads : MayBegin(t) /\ Begin(t, 1, TRUE, MaxRaceCalls)
    \/ \E t \in Threads : MultiStep(t, ConcTexts, ConcErrors)

RaceSpec == RaceInit /\ [][RaceNext]_vars

\* LiveSpec: one caller thread on one multi-model manager; a call that has
\* started keeps running (the interpreter executes the next statement, and
\* every adapter invocation returns or raises).
LiveInit == Boot((SUBSET ProviderSet) \ {{}}, {TRUE})

LiveRun == MultiStep(1, RawTexts, RawErrors) \/ TrackFailureRead(1)

LiveNext ==
    \/ \E fix \in BOOLEAN : Begin(1, 1, fix, MaxLiveCalls)
    \/ LiveRun

LiveSpec == LiveInit /\ [][LiveNext]_vars /\ WF_vars(LiveRun)

\* -------------------------------------------------------------- properties
\* A generate() call of a multi-model manager that has returned or raised.
Done(c) == c.pc = "idle" /\ c.result # "none"

MultiDone(c) == Done(c) /\ is_multi_model[c.mgr]

\* Position of provider p in the registry order.
Rank(p) == CHOOSE i \in 1..Len(Providers) : Providers[i] = p

Quiescent == \A t \in Threads : call[t].pc = "idle"

\* C1: if an enabled provider returns text when invoked, the call ends in
\* Succeeded with the text of the highest-priority such provider; a call ends
\* in Exhausted only when no provider enabled at its start was left untried
\* and none of them returned text.
C1_HighestPrioritySucceeds ==
    \A t \in Threads :
        LET c == call[t]
            good == c.enabled0 \cap c.answered IN
        MultiDone(c) =>
            /\ good # {} =>
                  /\ c.result = "Succeeded"
                  /\ c.provider \in good
                  /\ \A q \in good : Rank(c.provider) <= Rank(q)
                  /\ c.returned \in {c.raw_response, FixLlmResponse(c.raw_response)}
            /\ c.result = "Exhausted" => c.enabled0 \subseteq c.called

\* C2 as stated: once provider A has raised a 410-equivalent error in the
\* process, no later dispatch call of the process, through any multi-model
\* manager, invokes A.
C2_StickyInProcess ==
    \A t \in Threads :
        LET c == call[t] IN
        is_multi_model[c.mgr] =>
            \A p \in c.called : \A m \in Managers : <<m, p>> \notin c.seen0

\* C2 amended: once provider A has raised a 410-equivalent error in a call on
\* a multi-model manager, no later call on that same manager invokes A.
C2_StickyPerManager ==
    \A t \in Threads :
        LET c == call[t] IN
        is_multi_model[c.mgr] => \A p \in c.called : <<c.mgr, p>> \notin c.seen0

\* A finished call on a manager where a registered provider had raised a
\* 410-equivalent error before the call started: the provider was passed over.
C2_Witness ==
    \E t \in Threads :
        LET c == call[t] IN
        /\ MultiDone(c)
        /\ \E p \in Registered(c.mgr) : <<c.mgr, p>> \in c.seen0 /\ p \notin c.called
        /\ c.called # {}

\* C3: with no call in progress, success + failures of every provider equals
\* the number of times the dispatcher invoked its adapter.
C3_StatsConservation ==
    Quiescent =>
        \A m \in Managers : \A p \in ProviderSet :
            model_stats[m][p].success + model_stats[m][p].failures = invoked[m][p]

\* C4: when the normalizer raised on a provider's text, the call has ended in
\* Succeeded with that provider's raw text, no failure was counted for the
\* provider and no other provider was invoked after it.
C4_NormalizerFailureReturnsRaw ==
    \A t \in Threads :
        LET c == call[t] IN
        (is_multi_model[c.mgr] /\ c.unnormalized # {}) =>
            /\ c.result = "Succeeded"
            /\ c.returned = c.raw_response
            /\ c.provider \in c.unnormalized
            /\ model_stats[c.mgr][c.provider].failures = c.stats0[c.provider].failures

\* C5: a call in which no attempt succeeded ends in Exhausted, and its
\* attempted list is the providers enabled at its start, in priority order.
C5_ExhaustedAttemptsAllEnabled ==
    \A t \in Threads :
        LET c == call[t] IN
        (MultiDone(c) /\ c.result # "Succeeded") =>
            /\ c.result = "Exhausted"
            /\ c.attempted_models = SelectSeq(models[c.mgr], LAMBDA p : p \in c.enabled0)
            /\ Len(c.attempted_models) = Cardinality(c.enabled0)

\* An exhausted call that attempted at least two providers while a registered
\* provider was disabled at its start.
C5_Witness ==
    \E t \in Threads :
        LET c == call[t] IN
        /\ MultiDone(c)
        /\ c.result = "Exhausted"
        /\ Len(c.attempted_models) >= 2
        /\ c.enabled0 # Registered(c.mgr)

\* C6: once all concurrent calls have finished, every counter equals the
\* number of += 1 statements the calls executed on it.
C6_NoLostIncrement ==
    Quiescent =>
        \A m \in Managers : \A p \in ProviderSet :
            /\ model_stats[m][p].success = increments[m][p].success
            /\ model_stats[m][p].failures = increments[m][p].failures

\* C7: the step that handles a failed attempt, whatever its error, leaves the
\* call running at the next registry position, and a call turns Exhausted
\* only when every provider enabled at its start has been invoked.
C7_FailureNeverAborts ==
    [][\A t \in Threads :
          /\ (call[t].pc = "failure_write" /\ call'[t].pc # "failure_write") =>
                /\ call'[t].pc = "loop"
                /\ call'[t].result = "Pending"
                /\ call'[t].idx = call[t].idx + 1
          /\ (call[t].result = "Pending" /\ call'[t].result = "Exhausted") =>
                call[t].enabled0 \subseteq call[t].called]_vars

\* The adapter of a lower-priority provider is in flight after the previous
\* attempt failed with an error that is neither retryable nor unavailable.
C7_Witness ==
    \E t \in Threads :
        LET c == call[t] IN
        /\ c.pc = "adapter"
        /\ c.last_error # NoError
        /\ ~IsRetryable(c.last_error)
        /\ ~IsModelUnavailable(c.last_error)
        /\ c.last_error.by \in ProviderSet

\* C8 as stated: every finished FreeLLMManager.generate call, in either mode,
\* ended in Succeeded or in Exhausted.
C8_OnlySuccessOrExhaustion ==
    \A t \in Threads :
        Done(call[t]) => call[t].result \in {"Succeeded", "Exhausted"}

\* C8 amended: in multi-model mode a finished call ended in Succeeded or in
\* Exhausted; in single-Groq mode it ended in Succeeded or in the re-raised
\* "LLM generation failed" carrying the error of Groq or of the normalizer.
C8_BoundaryByMode ==
    \A t \in Threads :
        LET c == call[t] IN
        Done(c) =>
            IF is_multi_model[c.mgr]
            THEN c.result \in {"Succeeded", "Exhausted"}
            ELSE /\ c.result \in {"Succeeded", "GenerationFailed"}
                 /\ c.result = "GenerationFailed" =>
                       c.last_error.by \in {"groq", "text_corrector"}

\* A multi-model call that ended in Exhausted after an adapter raised.
C8_Witness ==
    \E t \in Threads :
        LET c == call[t] IN
        /\ MultiDone(c)
        /\ c.result = "Exhausted"
        /\ c.last_error.by \in ProviderSet

\* C9: a call that succeeded at provider B after earlier attempts failed left
\* failures + 1 on each provider attempted before B, success + 1 on B, and
\* every provider ranked after B not invoked, with its counters and flag as
\* they were when the call started.
C9_SuccessAfterFailureFrame ==
    \A t \in Threads :
        LET c == call[t]
            m == c.mgr
            n == Len(c.attempted_models) IN
        (MultiDone(c) /\ c.result = "Succeeded" /\ n >= 2) =>
            /\ c.provider = c.attempted_models[n]
            /\ model_stats[m][c.provider].success = c.stats0[c.provider].success + 1
            /\ \A i \in 1..(n - 1) :
                  model_stats[m][c.attempted_models[i]].failures =
                      c.stats0[c.attempted_models[i]].failures + 1
            /\ \A p \in Registered(m) :
                  Rank(p) > Rank(c.provider) =>
                      /\ p \notin c.called
                      /\ model_stats[m][p] = c.stats0[p]
                      /\ enabled[m][p] = (p \in c.enabled0)

\* A call that succeeded at its second attempt while a lower-ranked provider,
\* already used by an earlier call, is registered.
C9_Witness ==
    \E t \in Threads :
        LET c == call[t] IN
        /\ MultiDone(c)
        /\ c.result = "Succeeded"
        /\ Len(c.attempted_models) = 2
        /\ \E p \in Registered(c.mgr) :
              /\ Rank(p) > Rank(c.provider)
              /\ c.stats0[p].success + c.stats0[p].failures > 0

\* C10: a call on a manager whose providers were all disabled when it started
\* ends in Exhausted with an empty attempted list and no last error, invokes
\* no adapter and leaves every counter as it was.
C10_AllDisabledExhaustsAtOnce ==
    \A t \in Threads :
        LET c == call[t] IN
        (MultiDone(c) /\ c.enabled0 = {}) =>
            /\ c.result = "Exhausted"
            /\ c.attempted_models = <<>>
            /\ c.last_error = NoError
            /\ c.called = {}
            /\ model_stats[c.mgr] = c.stats0

\* A finished call that found every registered provider disabled.
C10_Witness ==
    \E t \in Threads :
        LET c == call[t] IN
        /\ MultiDone(c)
        /\ c.enabled0 = {}
        /\ Registered(c.mgr) # {}

\* C11: a call that ended in Exhausted carries the providers it invoked, in
\* the order it invoked them (registry priority order), and its last error is
\* the error raised by the adapter of the last provider it attempted.
C11_ExhaustionCarriesAttempts ==
    \A t \in Threads :
        LET c == call[t]
            n == Len(c.attempted_models) IN
        (MultiDone(c) /\ c.result = "Exhausted") =>
            /\ {c.attempted_models[i] : i \in 1..n} = c.called
            /\ \A i, j \in 1..n :
                  i < j => Rank(c.attempted_models[i]) < Rank(c.attempted_models[j])
            /\ IF n = 0
               THEN c.last_error = NoError
               ELSE c.last_error.by = c.attempted_models[n]

\* C12: under any interleaving of concurrent calls on one manager, a call
\* invokes no provider whose enabled flag was already false when the call
\* started.
C12_DisabledBeforeStartSkipped ==
    \A t \in Threads :
        LET c == call[t] IN
        is_multi_model[c.mgr] =>
            \A p \in Registered(c.mgr) : p \notin c.enabled0 => p \notin c.called

\* A call that started after another thread's call had disabled a provider
\* has invoked a provider ranked after it, while the other thread is inside a
\* call of its own.
C12_Witness ==
    \E t, u \in Threads :
        LET c == call[t] IN
        /\ t # u
        /\ call[u].pc # "idle"
        /\ c.result = "Pending"
        /\ \E p \in Registered(c.mgr), q \in c.called :
              /\ p \notin c.enabled0
              /\ Rank(p) < Rank(q)

\* C13: a call that has started ends in Succeeded or in Exhausted; while it
\* runs it invokes no provider twice and only registered providers, and it
\* has returned only once its result is one of the two.
C13_Terminates ==
    /\ [](\A t \in Threads :
            LET c == call[t]
                n == Len(c.attempted_models) IN
            is_multi_model[c.mgr] =>
                /\ \A i, j \in 1..n :
                      c.attempted_models[i] = c.attempted_models[j] => i = j
                /\ c.called \subseteq Registered(c.mgr)
                /\ c.result = "Pending" <=> c.pc # "idle"
                /\ Done(c) => c.result \in {"Succeeded", "Exhausted"})
    /\ \A t \in Threads :
          (call[t].result = "Pending") ~>
              (call[t].pc = "idle" /\ call[t].result \in {"Succeeded", "Exhausted"})

\* A call has ended in Exhausted after invoking all three providers.
C13_Witness ==
    \E t \in Threads :
        LET c == call[t] IN
        /\ MultiDone(c)
        /\ c.result = "Exhausted"
        /\ c.called = ProviderSet
        /\ Len(c.attempted_models) = 3

\* C14: MultiModelLLMManager() raises its configuration error exactly when no
\* provider was registered, that is when every provider lacks its library,
\* its credential, or a client that constructs; otherwise the manager is built
\* in multi-model mode with exactly the providers that have all three.
C14_ConfigErrorIffEmptyRegistry ==
    \A m \in Managers :
        LET registrable == {p \in ProviderSet :
                               /\ p \in env.available
                               /\ p \in env.keys
                               /\ p \in ctor[m].ok} IN
        ctor[m].multi_called =>
            /\ ctor[m].raised <=> registrable = {}
            /\ ctor[m].raised => (~is_multi_model[m] /\ models[m] = <<>>)
            /\ ~ctor[m].raised =>
                  /\ ctor[m].state = "multi"
                  /\ is_multi_model[m]
                  /\ Registered(m) = registrable

\* In one environment that holds a credential, one manager's construction
\* raised the configuration error and another manager was built with a
\* registry that lacks groq.
C14_Witness ==
    \E m, k \in Managers :
        /\ ctor[m].raised
        /\ env.keys # {}
        /\ ctor[k].state = "multi"
        /\ "groq" \notin Registered(k)

\* C15: a get_model_stats() call changes no counter, no enabled flag and no
\* registry; the dict it returns has exactly one entry per registered provider
\* with that provider's current success and failures, and the entry's success
\* rate is 'N/A' exactly when success + failures is 0, and otherwise the
\* percentage of successes to one decimal.
C15_StatsReadOnly ==
    [][\A t \in Threads :
          stats'[t] # stats[t] =>
              /\ model_stats' = model_stats
              /\ enabled' = enabled
              /\ models' = models
              /\ \E m \in Managers :
                    /\ {s.provider : s \in stats'[t]} = Registered(m)
                    /\ Cardinality(stats'[t]) = Cardinality(Registered(m))
                    /\ \A s \in stats'[t] :
                          LET total == s.success + s.failures IN
                          /\ s.success = model_stats[m][s.provider].success
                          /\ s.failures = model_stats[m][s.provider].failures
                          /\ s.success_rate.text = "N/A" <=> total = 0
                          /\ total > 0 =>
                                /\ 2 * s.success_rate.tenths * total <= 2000 * s.success + total
                                /\ 2 * s.success_rate.tenths * total > 2000 * s.success - total]_vars

\* A get_model_stats() call made while a generate() call was running returned
\* one entry with failures and no success and one entry with rate 'N/A'.
C15_Witness ==
    \E t \in Threads :
        /\ \E s \in stats[t] : s.success_rate.text = "N/A"
        /\ \E s \in stats[t] : s.failures > 0 /\ s.success = 0 /\ s.success_rate.tenths = 0
        /\ \E u \in Threads : call[u].pc # "idle"

\* C16 as stated: the step that handles an error matching a retryable signal
\* leaves the provider's enabled flag true, and the next call on the manager
\* starts with the provider enabled.
C16_RetryableStaysEnabled ==
    [][\A t \in Threads :
          LET c == call[t] IN
          /\ (c.pc = "failure_write" /\ call'[t].pc # "failure_write"
                  /\ IsRetryable(c.e)) =>
                enabled'[c.mgr][c.provider]
          /\ (c.pc = "idle" /\ call'[t].pc = "loop" /\ call'[t].mgr = c.mgr
                  /\ c.last_error.by \in ProviderSet /\ IsRetryable(c.last_error)) =>
                c.last_error.by \in call'[t].enabled0]_vars

\* C16 amended: the step that handles an error matching a retryable signal
\* and no unavailable signal (410, gone, 404, all hugging face models failed)
\* changes no enabled flag, the provider's flag is true after it, and the next
\* call on the manager starts with the provider enabled.
C16_RetryableOnlyStaysEnabled ==
    [][\A t \in Threads :
          LET c == call[t] IN
          /\ (c.pc = "failure_write" /\ call'[t].pc # "failure_write"
                  /\ IsRetryable(c.e) /\ ~IsModelUnavailable(c.e)) =>
                /\ enabled' = enabled
                /\ enabled'[c.mgr][c.provider]
          /\ (c.pc = "idle" /\ call'[t].pc = "loop" /\ call'[t].mgr = c.mgr
                  /\ c.last_error.by \in ProviderSet
                  /\ IsRetryable(c.last_error) /\ ~IsModelUnavailable(c.last_error)) =>
                c.last_error.by \in call'[t].enabled0]_vars

\* A provider that had failed before the call started was attempted again and
\* has just failed with a retryable error that matches no unavailable signal;
\* its flag is still true.
C16_Witness ==
    \E t \in Threads :
        LET c == call[t] IN
        /\ c.pc = "loop"
        /\ c.last_error.by \in ProviderSet
        /\ IsRetryable(c.last_error)
        /\ ~IsModelUnavailable(c.last_error)
        /\ c.stats0[c.last_error.by].failures > 0
        /\ enabled[c.mgr][c.last_error.by]

\* The replies model id k gave in the adapter run whose POSTs are log.
RepliesOf(log, k) == {log[i][2] : i \in {j \in 1..Len(log) : log[j][1] = k}}

\* The model ids the adapter run posted to.
TriedIds(log) == {log[i][1] : i \in 1..Len(log)}

\* C17: when a call's attempt at huggingface has left the provider disabled,
\* every model id the adapter tried in that attempt answered 410/404.
C17_DisabledOnlyIfAllGone ==
    \A t \in Threads :
        LET c == call[t] IN
        (/\ is_multi_model[c.mgr]
         /\ c.hf.kind # "none"
         /\ "huggingface" \in c.enabled0
         /\ ~enabled[c.mgr]["huggingface"]) =>
            \A k \in TriedIds(c.hf.log) : "gone" \in RepliesOf(c.hf.log, k)

\* C18 as stated: the adapter posts to the model ids in declared order from
\* the primary, goes on to the next id only after a 410/404 reply of the
\* current one, and after any other failed reply raises without posting to a
\* further id.
C18_FallbackOnlyOnGone ==
    \A t \in Threads :
        LET log == call[t].hf.log IN
        call[t].hf.kind # "none" =>
            /\ log[1][1] = 1
            /\ \A i \in 1..(Len(log) - 1) :
                  /\ log[i + 1][1] \in {log[i][1], log[i][1] + 1}
                  /\ log[i + 1][1] = log[i][1] + 1 => log[i][2] = "gone"
                  /\ log[i][2] \notin HfFailures \ {"gone"}

\* C18 amended: the adapter posts to the model ids in declared order from the
\* primary and goes on to the next id after any failed reply of the current
\* one (410/404, another error status, an exception, a malformed body), never
\* after a reply it returns from; it raises only once the last id has failed:
\* the aggregate error if the last id answered 410/404, the last id's own
\* error otherwise.
C18_FallbackOnAnyFailure ==
    \A t \in Threads :
        LET h == call[t].hf
            log == h.log
            n == Len(log) IN
        h.kind # "none" =>
            /\ log[1][1] = 1
            /\ \A i \in 1..(n - 1) :
                  /\ log[i + 1][1] \in {log[i][1], log[i][1] + 1}
                  /\ log[i + 1][1] = log[i][1] <=> log[i][2] = "loading"
                  /\ log[i + 1][1] = log[i][1] + 1 <=> log[i][2] \in HfFailures
            /\ h.kind = "return" <=> log[n][2] \notin HfFailures
            /\ h.kind = "raise" =>
                  /\ log[n][1] = NumHfModels
                  /\ h.text = "all hugging face models failed" <=> log[n][2] = "gone"
                  /\ log[n][2] # "gone" => h.text = HfErrorText(log[n][2])

\* An adapter run went on to the second model id after the primary answered
\* with an error status other than 410/404, and returned the second id's text.
C18_Witness ==
    \E t \in Threads :
        LET h == call[t].hf IN
        /\ h.kind = "return"
        /\ h.log = <<<<1, "http_error">>, <<2, "text">>>>
        /\ call[t].result = "Succeeded"

\* C19: a model id is posted to at most twice in an adapter run, a second time
\* exactly when its first reply said the model is loading; when the repeated
\* POST is again answered with loading the adapter does not return text: it
\* goes on to the next model id or raises.
C19_OneRetryThenGiveUp ==
    \A t \in Threads :
        LET h == call[t].hf
            log == h.log
            n == Len(log) IN
        h.kind # "none" =>
            /\ \A k \in TriedIds(log) :
                  LET posts == {i \in 1..n : log[i][1] = k} IN
                  /\ Cardinality(posts) <= 2
                  /\ Cardinality(posts) = 2 <=> \E i \in posts : i < n /\ log[i][2] = "loading"
            /\ \A i \in 2..n :
                  (log[i][2] = "loading" /\ log[i - 1] = <<log[i][1], "loading">>) =>
                      (i < n \/ h.kind = "raise")

\* C20: an adapter run of huggingface whose last reply was a 200 with an
\* error object, loading or not, raises; the provider's success counter is
\* not incremented by the call and the call does not end in Succeeded with
\* the empty text.
C20_ErrorObjectIsFailure ==
    \A t \in Threads :
        LET c == call[t]
            n == Len(c.hf.log) IN
        (c.hf.kind # "none" /\ c.hf.log[n][2] \in {"error_body", "loading"}) =>
            /\ c.hf.kind = "raise"
            /\ c.pc # "success_write"
            /\ model_stats[c.mgr]["huggingface"].success = c.stats0["huggingface"].success
            /\ ~(c.result = "Succeeded" /\ c.returned = "")

\* The providers call c has invoked whose adapter has neither returned text
\* nor had its failure counted.
InFlight(c) ==
    {p \in c.called :
        /\ p \notin c.answered
        /\ model_stats[c.mgr][p].failures = c.stats0[p].failures}

\* C21: at any moment of a call at most one of the providers it invoked is
\* still in its adapter, and it is the provider invoked last; when an adapter
\* is in flight every provider attempted before it has returned or raised.
C21_OneAdapterInFlight ==
    \A t \in Threads :
        LET c == call[t]
            n == Len(c.attempted_models) IN
        (is_multi_model[c.mgr] /\ c.result # "none") =>
            /\ InFlight(c) \subseteq {c.provider}
            /\ c.pc = "adapter" =>
                  /\ InFlight(c) = {c.provider}
                  /\ c.provider = c.attempted_models[n]
                  /\ \A i \in 1..(n - 1) : c.attempted_models[i] \notin InFlight(c)
            /\ c.pc \in {"loop", "idle"} => InFlight(c) = {}

\* The adapter of the third provider is in flight after the adapters of the
\* first two have returned or raised.
C21_Witness ==
    \E t \in Threads :
        LET c == call[t] IN
        /\ c.pc = "adapter"
        /\ Len(c.attempted_models) = 3
        /\ c.provider = "gemini"
        /\ InFlight(c) = {"gemini"}

\* The normalizer runs of call c: one for every provider whose text made it
\* raise, and one more when the call returned a truthy text with fix_typos.
NormalizerCalls(c) ==
    Cardinality(c.unnormalized) +
        (IF c.result = "Succeeded" /\ c.fix_typos /\ Truthy(c.raw_response) THEN 1 ELSE 0)

\* C22: a call runs the normalizer at most once, only with fix_typos, only on
\* the text of a provider whose adapter returned, and not at all when the
\* call ends in Exhausted.
C22_NormalizerAtMostOnce ==
    \A t \in Threads :
        LET c == call[t] IN
        is_multi_model[c.mgr] =>
            /\ NormalizerCalls(c) <= 1
            /\ NormalizerCalls(c) > 0 => c.fix_typos
            /\ c.unnormalized \subseteq c.answered
            /\ c.result = "Exhausted" => NormalizerCalls(c) = 0

\* The error texts whose verdict is "disable", as a set of texts alone.
DisablingTexts ==
    {x \in RawErrors \cup {NormalizerError.text} :
        IsModelUnavailable([by |-> "none", text |-> x])}

\* C23: the step that handles a failed attempt leaves the provider's flag
\* false exactly when the flag was false already or the error text is one of
\* the disabling texts, and changes no other flag: the verdict depends on the
\* text alone, not on the provider, the registry position, the counters or
\* the flags.
C23_VerdictByTextAlone ==
    [][\A t \in Threads :
          LET c == call[t] IN
          (c.pc = "failure_write" /\ call'[t].pc # "failure_write") =>
              /\ enabled'[c.mgr][c.provider] =
                    (enabled[c.mgr][c.provider] /\ c.e.text \notin DisablingTexts)
              /\ \A m \in Managers : \A p \in ProviderSet :
                    <<m, p>> # <<c.mgr, c.provider>> => enabled'[m][p] = enabled[m][p]]_vars

\* In one call the providers at the first and at the second registry position
\* were both disabled, the second by the text "410 gone", after the first
\* attempt had already changed a failure counter.
C23_Witness ==
    \E t \in Threads :
        LET c == call[t] IN
        /\ c.pc = "loop"
        /\ Len(c.attempted_models) = 2
        /\ c.last_error.text = "410 gone"
        /\ \A i \in 1..2 :
              /\ c.attempted_models[i] \in c.enabled0
              /\ ~enabled[c.mgr][c.attempted_models[i]]

\* C24: the registry of a manager built in multi-model mode is the
\* subsequence of groq, huggingface, gemini made of the providers whose
\* library imported, whose credential is set and whose client constructed:
\* no provider twice, priorities strictly increasing, nothing else omitted;
\* every registered provider is enabled and has success = failures = 0.
C24_RegistryIsPrioritySubsequence ==
    \A m \in Managers :
        LET reg == models[m]
            n == Len(reg) IN
        ctor[m].state = "multi" =>
            /\ n >= 1
            /\ \A i, j \in 1..n : i < j => Rank(reg[i]) < Rank(reg[j])
            /\ \A p \in ProviderSet :
                  (\E i \in 1..n : reg[i] = p) <=>
                      (p \in env.available /\ p \in env.keys /\ p \in ctor[m].ok)
            /\ \A i \in 1..n :
                  /\ enabled[m][reg[i]]
                  /\ model_stats[m][reg[i]] = [success |-> 0, failures |-> 0]

\* A manager was built with huggingface and gemini although the groq
\* credential is set: only groq, whose client failed to construct, is missing.
C24_Witness ==
    \E m \in Managers :
        /\ ctor[m].state = "multi"
        /\ models[m] = <<"huggingface", "gemini">>
        /\ "groq" \in env.keys \cap env.available
        /\ "groq" \notin ctor[m].ok

\* C25: no step of a generate() call changes the registry: the list of
\* registered providers and its order, the mode of the manager and what
\* construction recorded stay as they were; whenever a call is over the
\* registry is still the one construction built from the environment.
C25_RegistryUnchangedByDispatch ==
    [][/\ models' = models
       /\ is_multi_model' = is_multi_model
       /\ ctor' = ctor
       /\ env' = env
       /\ \A m \in Managers :
             is_multi_model[m] => models'[m] = MultiModelInit(env, ctor[m].ok).registry]_vars

\* After a second call has started, the registry still holds its three
\* providers although one of them is disabled and counters have moved.
C25_Witness ==
    /\ ncalls >= 2
    /\ models[1] = Providers
    /\ \E p \in ProviderSet : ~enabled[1][p]
    /\ \E p \in ProviderSet : model_stats[1][p].success > 0
    /\ \E p \in ProviderSet : model_stats[1][p].failures > 0

\* C26: no step decreases a success or failures counter, and a step raises
\* the counters of all providers together by at most one.
C26_CountersMonotonic ==
    [][/\ \A m \in Managers : \A p \in ProviderSet :
             /\ model_stats'[m][p].success >= model_stats[m][p].success
             /\ model_stats'[m][p].failures >= model_stats[m][p].failures
       /\ Cardinality({<<m, p, k>> \in Managers \X ProviderSet \X {"success", "failures"} :
                          model_stats'[m][p][k] # model_stats[m][p][k]}) <= 1
       /\ \A m \in Managers : \A p \in ProviderSet :
             /\ model_stats'[m][p].success <= model_stats[m][p].success + 1
             /\ model_stats'[m][p].failures <= model_stats[m][p].failures + 1]_vars

\* C27: a step that changes an enabled flag changes it from true to false,
\* and it is the step that handles a failed attempt of some call at that
\* provider of that manager with an error classified as unavailable; every
\* other step leaves every flag as it was.
C27_FlagOnlyFallsOnUnavailable ==
    [][\A m \in Managers : \A p \in ProviderSet :
          enabled'[m][p] # enabled[m][p] =>
              /\ enabled[m][p]
              /\ ~enabled'[m][p]
              /\ \E t \in Threads :
                    /\ call[t].pc = "failure_write"
                    /\ call'[t].pc = "loop"
                    /\ call[t].mgr = m
                    /\ call[t].provider = p
                    /\ call[t].e.by = p
                    /\ IsModelUnavailable(call[t].e)]_vars

\* In one call the first provider failed with an error that left its flag
\* true and the second provider was disabled by an unavailable error.
C27_Witness ==
    \E t \in Threads :
        LET c == call[t] IN
        /\ c.pc = "loop"
        /\ Len(c.attempted_models) = 2
        /\ enabled[c.mgr][c.attempted_models[1]]
        /\ model_stats[c.mgr][c.attempted_models[1]].failures > c.stats0[c.attempted_models[1]].failures
        /\ c.attempted_models[2] \in c.enabled0
        /\ ~enabled[c.mgr][c.attempted_models[2]]
        /\ IsModelUnavailable(c.last_error)

\* C28: the step that handles an error matching both an unavailable and a
\* retryable signal leaves the provider disabled, and the next call on the
\* manager starts with the provider disabled and never invokes it.
C28_UnavailableBeatsRetryable ==
    [][\A t \in Threads :
          LET c == call[t] IN
          /\ (c.pc = "failure_write" /\ call'[t].pc # "failure_write"
                  /\ IsModelUnavailable(c.e) /\ IsRetryable(c.e)) =>
                ~enabled'[c.mgr][c.provider]
          /\ (is_multi_model[c.mgr] /\ c.last_error.by \in ProviderSet
                  /\ c.result # "Pending"
                  /\ IsModelUnavailable(c.last_error) /\ IsRetryable(c.last_error)
                  /\ call'[t].mgr = c.mgr) =>
                /\ ~enabled'[c.mgr][c.last_error.by]
                /\ c.last_error.by \notin call'[t].enabled0
                /\ c.last_error.by \notin call'[t].called]_vars

\* A call has just handled an error that holds both "404" and "timeout": the
\* provider, enabled when the call started, is disabled.
C28_Witness ==
    \E t \in Threads :
        LET c == call[t] IN
        /\ c.pc = "loop"
        /\ c.last_error.by \in c.enabled0
        /\ IsModelUnavailable(c.last_error)
        /\ IsRetryable(c.last_error)
        /\ ~enabled[c.mgr][c.last_error.by]

\* C29: a traversal decides at each registry position from the flag as it is
\* at that moment: it invokes the provider only if the flag is true now, and
\* when the flag is false now, even though it was true when the call started,
\* it moves on without appending the provider to attempted_models and without
\* changing any counter.
C29_FlagReadAtTraversal ==
    [][\A t \in Threads :
          LET c == call[t]
              p == models[c.mgr][c.idx] IN
          (c.pc = "loop" /\ c.idx <= Len(models[c.mgr]) /\ call'[t] # c) =>
              IF enabled[c.mgr][p]
              THEN /\ call'[t].pc = "adapter"
                   /\ call'[t].provider = p
                   /\ call'[t].attempted_models = Append(c.attempted_models, p)
              ELSE /\ call'[t].pc = "loop"
                   /\ call'[t].idx = c.idx + 1
                   /\ call'[t].attempted_models = c.attempted_models
                   /\ call'[t].called = c.called
                   /\ model_stats' = model_stats
                   /\ invoked' = invoked]_vars

\* A call that started with huggingface enabled ended in Exhausted having
\* attempted groq alone: another thread's call disabled huggingface while
\* this call was at groq.
C29_Witness ==
    \E t \in Threads :
        LET c == call[t] IN
        /\ MultiDone(c)
        /\ c.result = "Exhausted"
        /\ c.enabled0 = {"groq", "huggingface"}
        /\ c.attempted_models = <<"groq">>
        /\ ~enabled[c.mgr]["huggingface"]
        /\ enabled[c.mgr]["groq"]

\* C30: a step of a call on one manager leaves the enabled flags, the
\* counters and the registry of every other manager as they were.
C30_StatePerManager ==
    [][\A k \in Managers :
          (\A t \in Threads : call'[t] # call[t] => call'[t].mgr # k) =>
              /\ enabled'[k] = enabled[k]
              /\ model_stats'[k] = model_stats[k]
              /\ models'[k] = models[k]]_vars

\* A call on one manager is in the adapter of a provider that another manager
\* of the process has disabled, and the other manager's counters show the
\* failure while this manager's counters for the provider are still zero.
C30_Witness ==
    \E t \in Threads : \E k \in Managers :
        LET c == call[t] IN
        /\ k # c.mgr
        /\ is_multi_model[c.mgr]
        /\ c.pc = "adapter"
        /\ ~enabled[k][c.provider]
        /\ enabled[c.mgr][c.provider]
        /\ model_stats[k][c.provider].failures > 0
        /\ model_stats[c.mgr][c.provider] = [success |-> 0, failures |-> 0]

=============================================================================
